---- MODULE Spec2Model ----
(***************************************************************************)
(* Model of DryRunovateReporter.py: the three log scans                    *)
(* (_extract_general_dry_run_infos,                                        *)
(* _extract_and_process_autoclosed_dry_run_infos, _find_branches_lists),   *)
(* the section decoder (_process_branches_lists), the dry-run lookup and   *)
(* PR classification (_get_dry_run_info, _determine_pr_status), the report *)
(* generator (HTMLReportGenerator._generate) and the driver (execute).     *)
(*                                                                         *)
(* A log is a sequence of raw lines.  Regular expressions are configured   *)
(* by the user of the program; the model fixes one configuration and       *)
(* gives, for every line of its alphabets, the outcome of each re.match.   *)
(* Every function has a frame variable holding its locals, its control     *)
(* position (pc) and its outcome (status: idle, running, returned,         *)
(* raised).                                                                *)
(***************************************************************************)
EXTENDS Integers, Sequences, FiniteSets, TLC

VARIABLES
    log,      \* the lines of the log file, as the file iterator yields them
    offset,   \* config.dry_run_info_autoclosed_pr_title_line_number
    gen,      \* frame of _extract_general_dry_run_infos
    ac,       \* frame of _extract_and_process_autoclosed_dry_run_infos
    fb,       \* frame of _find_branches_lists
    lk,       \* frame of _get_dry_run_info (stand-alone call)
    exe,      \* frame of execute, the decoder's items and the report
    cl,       \* frame of _determine_pr_status (stand-alone call)
    cfg       \* the Config object and the arguments of its constructor

vars == <<log, offset, gen, ac, fb, lk, exe, cl, cfg>>

(***************************************************************************)
(* Bounds of the model.                                                    *)
(***************************************************************************)
MaxSectLen == 5      \* longest log of the section-scan specification
MaxGenLen == 4       \* longest log of the general-scan specification
MaxAutoLen == 4      \* longest log of the autoclosed-scan specification
MaxOffset == 2       \* largest configured title offset
MaxResult == 5       \* cap on the autoclosed result list (offset 0 can loop)
MaxEvents == 4       \* longest event list handed to _get_dry_run_info
MaxSegments == 3     \* number of log segments of the pipeline specification
MaxRecords == 2      \* autoclosed records of the decoder specification
MaxIndex == 2        \* events of the dry-run index of the decoder specification
MaxInfos == 3        \* length of the event list of the classification specification
MaxPatternLen == 3       \* characters of a raw pattern
MaxPlaceholderLen == 2   \* characters of the placeholder
MaxBasePatternLen == 2   \* characters of the base pattern

(***************************************************************************)
(* Python values.                                                          *)
(***************************************************************************)
None == "<None>"

\* the truth value Python gives a str | None in `while line:` / `if not line:`
Truthy(line) == line # None /\ line # ""

\* an ordered dict[str, list[str]] as a sequence of <<key, value>> pairs
DictKeys(d) == {d[i][1] : i \in 1..Len(d)}

DictGet(d, k) == LET i == CHOOSE j \in 1..Len(d) : d[j][1] = k IN d[i][2]

\* d[k] = v: a present key keeps its position, a new key goes last
DictSet(d, k, v) ==
    IF k \in DictKeys(d)
    THEN [i \in 1..Len(d) |-> IF d[i][1] = k THEN <<k, v>> ELSE d[i]]
    ELSE Append(d, <<k, v>>)

(***************************************************************************)
(* Lines and the configured patterns.                                      *)
(***************************************************************************)
\* raw lines that consist of whitespace only
WhitespaceLines == {"  "}

\* raw lines that carry surrounding whitespace, with their trimmed text
PaddedLines == {" DRY A b1 i3 "}

Trimmed(raw) == CASE raw = " DRY A b1 i3 " -> "DRY A b1 i3"

\* str.strip
Strip(raw) ==
    IF raw \in WhitespaceLines THEN ""
    ELSE IF raw \in PaddedLines THEN Trimmed(raw)
    ELSE raw

\* _get_next_line on a file iterator that has yielded pos lines
get_next_line(pos) ==
    IF pos < Len(log) THEN [line |-> Strip(log[pos + 1]), pos |-> pos + 1]
    ELSE [line |-> None, pos |-> pos]

\* re.match(config.branches_info_start_pattern, line)
StartLines == {"START A", "START B", "START ?"}
StartMatch(line) == line \in StartLines

\* re.match(config.branches_info_end_pattern, line)
EndMatch(line) == line = "END"

\* re.search(config.repository_name_pattern, line): group(1), or None
RepoSearch(line) ==
    CASE line = "START A" -> "A"
      [] line = "START B" -> "B"
      [] OTHER -> None

(***************************************************************************)
(* Errors, as <<exception class, message, arguments of the message>>.      *)
(***************************************************************************)
NoError == <<>>
EmptyLogError == <<"LogFileParsingError", "Log file is empty.">>
RepositoryNameError == <<"ValueError", "Repository name could not be extracted.">>
UnterminatedSectionError(repository_name) ==
    <<"LogFileParsingError",
      "Start of the relevant section for repository {} was found but no end was found.",
      repository_name>>

(***************************************************************************)
(* _find_branches_lists                                                    *)
(***************************************************************************)
\* h_sealed, h_start and h_seals are history fields: the repository of every
\* section sealed so far, in the order of sealing; the index of the start
\* marker matched last; and, for every seal, <<index of the start marker,
\* index of the end marker, lines sealed>>
fbIdle ==
    [status |-> "idle", pc |-> "open", pos |-> 0, line |-> None,
     repository_name |-> None, relevant_section |-> <<>>,
     relevant_sections |-> <<>>, error |-> NoError, h_sealed |-> <<>>,
     h_start |-> 0, h_seals |-> <<>>]

fbStart == [fbIdle EXCEPT !.status = "running"]

fbOthers == <<log, offset, gen, ac, lk, exe, cl, cfg>>

\* line 410-412: the first read; a falsy first line raises "Log file is empty."
FB_FirstLine ==
    /\ fb.status = "running" /\ fb.pc = "open"
    /\ LET r == get_next_line(fb.pos) IN
        IF ~Truthy(r.line)
        THEN fb' = [fb EXCEPT !.status = "raised", !.error = EmptyLogError,
                              !.line = r.line, !.pos = r.pos]
        ELSE fb' = [fb EXCEPT !.pc = "outer", !.line = r.line, !.pos = r.pos]
    /\ UNCHANGED fbOthers

\* _extract_repository_name: the name, or None when it raises ValueError
extract_repository_name(line) == RepoSearch(line)

\* line 414-416: a start marker in the outer loop opens a section
FB_StartMarker ==
    /\ fb.status = "running" /\ fb.pc = "outer"
    /\ Truthy(fb.line) /\ StartMatch(fb.line)
    /\ LET name == extract_repository_name(fb.line)
           r == get_next_line(fb.pos) IN
        IF name = None
        THEN fb' = [fb EXCEPT !.status = "raised", !.error = RepositoryNameError]
        ELSE fb' = [fb EXCEPT !.repository_name = name, !.pc = "inner",
                              !.line = r.line, !.pos = r.pos,
                              !.h_start = fb.pos]
    /\ UNCHANGED fbOthers

\* line 426-427: any other line in the outer loop is skipped
FB_SkipLine ==
    /\ fb.status = "running" /\ fb.pc = "outer"
    /\ Truthy(fb.line) /\ ~StartMatch(fb.line)
    /\ LET r == get_next_line(fb.pos) IN
        fb' = [fb EXCEPT !.line = r.line, !.pos = r.pos]
    /\ UNCHANGED fbOthers

\* line 419: relevant_sections[repository_name] = list(relevant_section)
Seal(sections, name, section) == DictSet(sections, name, section)

\* faulty variant of line 418-422: relevant_section.clear() is left out
FB_EndMarkerKeepsLines ==
    /\ fb.status = "running" /\ fb.pc = "inner"
    /\ Truthy(fb.line) /\ EndMatch(fb.line)
    /\ LET r == get_next_line(fb.pos) IN
        fb' = [fb EXCEPT
                 !.relevant_sections =
                     Seal(fb.relevant_sections, fb.repository_name, fb.relevant_section),
                 !.h_sealed = Append(fb.h_sealed, fb.repository_name),
                 !.h_seals = Append(fb.h_seals,
                                    <<fb.h_start, fb.pos, fb.relevant_section>>),
                 !.pc = "outer", !.line = r.line, !.pos = r.pos]
    /\ UNCHANGED fbOthers

\* line 418-422: an end marker in the inner loop seals the section
FB_EndMarker ==
    /\ fb.status = "running" /\ fb.pc = "inner"
    /\ Truthy(fb.line) /\ EndMatch(fb.line)
    /\ LET r == get_next_line(fb.pos) IN
        fb' = [fb EXCEPT
                 !.relevant_sections =
                     Seal(fb.relevant_sections, fb.repository_name, fb.relevant_section),
                 !.relevant_section = <<>>,
                 !.h_sealed = Append(fb.h_sealed, fb.repository_name),
                 !.h_seals = Append(fb.h_seals,
                                    <<fb.h_start, fb.pos, fb.relevant_section>>),
                 !.pc = "outer", !.line = r.line, !.pos = r.pos]
    /\ UNCHANGED fbOthers

\* line 423-425: any other line in the inner loop is a body line
FB_BodyLine ==
    /\ fb.status = "running" /\ fb.pc = "inner"
    /\ Truthy(fb.line) /\ ~EndMatch(fb.line)
    /\ LET r == get_next_line(fb.pos) IN
        fb' = [fb EXCEPT !.relevant_section = Append(fb.relevant_section, fb.line),
                         !.line = r.line, !.pos = r.pos]
    /\ UNCHANGED fbOthers

\* line 430-433: the test that decides whether the end of the scan raises
Unterminated(f) ==
    f.repository_name # None /\ f.repository_name \notin DictKeys(f.relevant_sections)

\* line 413, 417, 429-437: a falsy line ends the loop it is read in (and, from the
\* inner loop, the outer one too); the while-else clause then raises or returns.
\* pc keeps the loop in which the scan ended.
FB_LoopElse ==
    /\ fb.status = "running" /\ fb.pc \in {"outer", "inner"}
    /\ ~Truthy(fb.line)
    /\ IF Unterminated(fb)
       THEN fb' = [fb EXCEPT !.status = "raised",
                             !.error = UnterminatedSectionError(fb.repository_name)]
       ELSE fb' = [fb EXCEPT !.status = "returned"]
    /\ UNCHANGED fbOthers

FindBranchesNext ==
    \/ FB_FirstLine
    \/ FB_StartMarker
    \/ FB_SkipLine
    \/ FB_EndMarker
    \/ FB_BodyLine
    \/ FB_LoopElse

(***************************************************************************)
(* _extract_general_dry_run_infos                                          *)
(***************************************************************************)
NoMatch == <<>>

\* re.match(config.dry_run_info_pattern_general, line): the named groups
\* <<repository_name, branch_name, info>>, or NoMatch
GeneralMatch(line) ==
    CASE line = "DRY A b1 i1" -> <<"A", "b1", "i1">>
      [] line = "DRY A b1 i2" -> <<"A", "b1", "i2">>
      [] line = "DRY A b1 i3" -> <<"A", "b1", "i3">>
      [] line = "DRY A t1 i4" -> <<"A", "t1", "i4">>
      [] line = "DRY B b1 i1" -> <<"B", "b1", "i1">>
      [] line = "DRY A b1" -> <<"A", "b1", None>>
      [] OTHER -> NoMatch

genIdle ==
    [status |-> "idle", pc |-> "open", pos |-> 0, line |-> None,
     dry_run_infos |-> <<>>]

genStart == [genIdle EXCEPT !.status = "running"]

genOthers == <<log, offset, ac, fb, lk, exe, cl, cfg>>

\* line 484: the first read
GEN_FirstLine ==
    /\ gen.status = "running" /\ gen.pc = "open"
    /\ LET r == get_next_line(gen.pos) IN
        gen' = [gen EXCEPT !.pc = "loop", !.line = r.line, !.pos = r.pos]
    /\ UNCHANGED genOthers

\* line 486-492: a matching line appends its event
GEN_Match ==
    /\ gen.status = "running" /\ gen.pc = "loop"
    /\ Truthy(gen.line) /\ GeneralMatch(gen.line) # NoMatch
    /\ LET r == get_next_line(gen.pos) IN
        gen' = [gen EXCEPT
                  !.dry_run_infos = Append(gen.dry_run_infos, GeneralMatch(gen.line)),
                  !.line = r.line, !.pos = r.pos]
    /\ UNCHANGED genOthers

\* line 493-494: any other line is skipped
GEN_NoMatch ==
    /\ gen.status = "running" /\ gen.pc = "loop"
    /\ Truthy(gen.line) /\ GeneralMatch(gen.line) = NoMatch
    /\ LET r == get_next_line(gen.pos) IN
        gen' = [gen EXCEPT !.line = r.line, !.pos = r.pos]
    /\ UNCHANGED genOthers

\* line 485, 496: a falsy line ends the loop and the list is returned
GEN_Return ==
    /\ gen.status = "running" /\ gen.pc = "loop"
    /\ ~Truthy(gen.line)
    /\ gen' = [gen EXCEPT !.status = "returned"]
    /\ UNCHANGED genOthers

GeneralNext ==
    \/ GEN_FirstLine
    \/ GEN_Match
    \/ GEN_NoMatch
    \/ GEN_Return

(***************************************************************************)
(* _extract_and_process_autoclosed_dry_run_infos                           *)
(***************************************************************************)
\* re.match(config.dry_run_info_pattern_autoclosed, line)
AutoMatch(line) == line \in {"AUTO A", "AUTO B", "AUTO C TITLE t3"}

\* match.group('repository_name') of a marker line
AutoRepo(line) ==
    CASE line = "AUTO A" -> "A"
      [] line = "AUTO B" -> "B"
      [] line = "AUTO C TITLE t3" -> "C"

\* re.match(config.dry_run_info_autoclosed_pr_title_pattern, line)
TitleMatch(line) == line \in {"TITLE t1", "TITLE t2", "AUTO C TITLE t3"}

\* match.group('pr_title') of a title line
TitleOf(line) ==
    CASE line = "TITLE t1" -> "t1"
      [] line = "TITLE t2" -> "t2"
      [] line = "AUTO C TITLE t3" -> "t3"

OffsetMissingError(n) ==
    <<"LogFileParsingError",
      "pr title was not found {} lines below the log entry matched by config.dry_run_info_pattern_autoclosed. Said line is non-existent.",
      n>>

TitleNotFoundError(n, line) ==
    <<"LogFileParsingError",
      "pr title was not found {} lines below the log entry matched by config.dry_run_info_pattern_autoclosed. Instead the following line was found: {}",
      n, line>>

\* h_marker and h_markers are history fields: the index of the marker line
\* matched last, and the indices of all marker lines matched so far
acIdle ==
    [status |-> "idle", pc |-> "open", pos |-> 0, line |-> None,
     repository_name |-> None, result |-> <<>>, error |-> NoError,
     h_marker |-> 0, h_markers |-> <<>>]

acStart == [acIdle EXCEPT !.status = "running"]

acOthers == <<log, offset, gen, fb, lk, exe, cl, cfg>>

\* line 503: the first read
AC_FirstLine ==
    /\ ac.status = "running" /\ ac.pc = "open"
    /\ LET r == get_next_line(ac.pos) IN
        ac' = [ac EXCEPT !.pc = "loop", !.line = r.line, !.pos = r.pos]
    /\ UNCHANGED acOthers

\* line 508-509: for _ in range(n): line = _get_next_line(file)
RECURSIVE ReadLines(_, _)
ReadLines(n, cur) ==
    IF n = 0 THEN cur ELSE ReadLines(n - 1, get_next_line(cur.pos))

\* faulty variants: one line too many, one line too few
AdvanceOneMore(n, cur) == ReadLines(n + 1, cur)

AdvanceOneLess(n, cur) == ReadLines(IF n > 0 THEN n - 1 ELSE 0, cur)

Advance(n, cur) == ReadLines(n, cur)

\* line 505-509: a marker line; the scan reads offset lines further
AC_Marker ==
    /\ ac.status = "running" /\ ac.pc = "loop"
    /\ Truthy(ac.line) /\ AutoMatch(ac.line)
    /\ LET r == Advance(offset, [line |-> ac.line, pos |-> ac.pos]) IN
        ac' = [ac EXCEPT !.repository_name = AutoRepo(ac.line),
                         !.pc = "title", !.line = r.line, !.pos = r.pos,
                         !.h_marker = ac.pos,
                         !.h_markers = Append(ac.h_markers, ac.pos)]
    /\ UNCHANGED acOthers

\* faulty variant of line 510: `if line:` in place of `if line is not None:`
LineFalsy(line) == ~Truthy(line)

\* line 510: the test that tells a missing offset line from a present one
LineMissing(line) == line = None

\* line 510-514: the offset line matches the title pattern; the record is
\* appended and the loop goes on with the same line
AC_TitleFound ==
    /\ ac.status = "running" /\ ac.pc = "title"
    /\ ~LineMissing(ac.line) /\ TitleMatch(ac.line)
    /\ Len(ac.result) < MaxResult
    /\ ac' = [ac EXCEPT
                !.result = Append(ac.result, <<ac.repository_name, TitleOf(ac.line)>>),
                !.pc = "loop"]
    /\ UNCHANGED acOthers

\* line 515-516: the offset line does not match the title pattern
AC_TitleNotFound ==
    /\ ac.status = "running" /\ ac.pc = "title"
    /\ ~LineMissing(ac.line) /\ ~TitleMatch(ac.line)
    /\ ac' = [ac EXCEPT !.status = "raised",
                        !.error = TitleNotFoundError(offset, ac.line)]
    /\ UNCHANGED acOthers

\* line 517-518: the log ended before the offset line
AC_OffsetMissing ==
    /\ ac.status = "running" /\ ac.pc = "title"
    /\ LineMissing(ac.line)
    /\ ac' = [ac EXCEPT !.status = "raised", !.error = OffsetMissingError(offset)]
    /\ UNCHANGED acOthers

\* line 519-520: any other line is skipped
AC_NoMatch ==
    /\ ac.status = "running" /\ ac.pc = "loop"
    /\ Truthy(ac.line) /\ ~AutoMatch(ac.line)
    /\ LET r == get_next_line(ac.pos) IN
        ac' = [ac EXCEPT !.line = r.line, !.pos = r.pos]
    /\ UNCHANGED acOthers

\* line 504, 522-523: a falsy line ends the loop and the list is returned
AC_Return ==
    /\ ac.status = "running" /\ ac.pc = "loop"
    /\ ~Truthy(ac.line)
    /\ ac' = [ac EXCEPT !.status = "returned"]
    /\ UNCHANGED acOthers

AutoclosedNext ==
    \/ AC_FirstLine
    \/ AC_Marker
    \/ AC_TitleFound
    \/ AC_TitleNotFound
    \/ AC_OffsetMissing
    \/ AC_NoMatch
    \/ AC_Return

(***************************************************************************)
(* _get_dry_run_info                                                       *)
(***************************************************************************)
\* faulty variant of line 540: the branch is not compared
SameRepository(event, repository_name, branch_name) ==
    event[1] = repository_name /\ event[3] # None

\* line 540: the test of one event
Selected(event, repository_name, branch_name) ==
    event[1] = repository_name /\ event[2] = branch_name /\ event[3] # None

\* line 537-543: the loop over dry_run_infos
RECURSIVE get_dry_run_info(_, _, _)
get_dry_run_info(repository_name, branch_name, dry_run_infos) ==
    IF dry_run_infos = <<>> THEN <<>>
    ELSE LET event == Head(dry_run_infos)
             rest == get_dry_run_info(repository_name, branch_name, Tail(dry_run_infos))
         IN IF Selected(event, repository_name, branch_name)
            THEN <<event[3]>> \o rest
            ELSE rest

lkIdle ==
    [status |-> "idle", repository_name |-> None, branch_name |-> None,
     dry_run_infos |-> <<>>, result |-> <<>>]

lkOthers == <<log, offset, gen, ac, fb, exe, cl, cfg>>

\* a call of _get_dry_run_info on the arguments held in the frame
LK_Call ==
    /\ lk.status = "running"
    /\ lk' = [lk EXCEPT
                !.status = "returned",
                !.result = get_dry_run_info(lk.repository_name, lk.branch_name,
                                            lk.dry_run_infos)]
    /\ UNCHANGED lkOthers

(***************************************************************************)
(* _determine_pr_status and its drilldowns                                 *)
(***************************************************************************)
UNCHANGED_PR == "UNCHANGED"
UPDATED_PR == "UPDATED"
NEW_PR == "NEW"
DISCARDED_PR == "DISCARDED"
SKIPPED_PR == "SKIPPED"
ERROR_PR == "ERROR"
PENDING_PR == "PENDING"
AUTOMERGED_PR == "AUTOMERGED"
UNKNOWN_PR == "UNKNOWN"

\* A Python string built by concatenation is the sequence of its pieces; ""
\* is the empty sequence.
Text(s) == <<s>>

\* faulty variant of join: the separator follows every line, the last too
JoinTrailing(dry_run_info) ==
    [k \in 1..(2 * Len(dry_run_info)) |->
        IF k % 2 = 1 THEN dry_run_info[(k + 1) \div 2] ELSE "<br>"]

\* "<br>".join(dry_run_info)
RECURSIVE Join(_)
Join(dry_run_info) ==
    IF dry_run_info = <<>> THEN <<>>
    ELSE IF Len(dry_run_info) = 1 THEN <<dry_run_info[1]>>
    ELSE <<dry_run_info[1], "<br>">> \o Join(Tail(dry_run_info))

\* re.match(config.updated_branch_pattern, info), and so on
UpdatedMatch(info) == info \in {"updated", "updated and created"}
CreatedMatch(info) == info \in {"created", "updated and created"}
CommittedMatch(info) == info = "committed"

\* any(re.match(pattern, info) for info in dry_run_info)
AnyUpdated(dry_run_info) == \E i \in 1..Len(dry_run_info) : UpdatedMatch(dry_run_info[i])
AnyCreated(dry_run_info) == \E i \in 1..Len(dry_run_info) : CreatedMatch(dry_run_info[i])
AnyCommitted(dry_run_info) == \E i \in 1..Len(dry_run_info) : CommittedMatch(dry_run_info[i])

\* faulty variant of line 558-561: the created pattern is tried first
DoneCreatedFirst(dry_run_info) ==
    IF Len(dry_run_info) = 0 THEN <<UNCHANGED_PR, <<>>>>
    ELSE IF AnyCreated(dry_run_info) THEN <<NEW_PR, <<>>>>
    ELSE IF AnyUpdated(dry_run_info) THEN <<UPDATED_PR, <<>>>>
    ELSE IF AnyCommitted(dry_run_info) THEN <<UNCHANGED_PR, <<>>>>
    ELSE <<UNKNOWN_PR, Join(dry_run_info)>>

\* _done_state_drilldown
done_state_drilldown(dry_run_info) ==
    IF Len(dry_run_info) = 0 THEN <<UNCHANGED_PR, <<>>>>
    ELSE IF AnyUpdated(dry_run_info) THEN <<UPDATED_PR, <<>>>>
    ELSE IF AnyCreated(dry_run_info) THEN <<NEW_PR, <<>>>>
    ELSE IF AnyCommitted(dry_run_info) THEN <<UNCHANGED_PR, <<>>>>
    ELSE <<UNKNOWN_PR, Join(dry_run_info)>>

\* faulty variant of line 579-584: the chain of the done drilldown
NoWorkLikeDone(dry_run_info) == done_state_drilldown(dry_run_info)

\* _no_work_state_drilldown
no_work_state_drilldown(dry_run_info) ==
    IF Len(dry_run_info) = 0 THEN <<UNCHANGED_PR, <<>>>>
    ELSE IF AnyCommitted(dry_run_info) THEN <<NEW_PR, <<>>>>
    ELSE <<UNKNOWN_PR, Join(dry_run_info)>>

\* the match statement of _determine_pr_status, on the info lines of line 600
StatusOf(pr_result, dry_run_info) ==
    CASE pr_result = "discarded" -> <<DISCARDED_PR, Text("PR would be discarded")>>
      [] pr_result = "already-existed" ->
            <<SKIPPED_PR, Text("There is a closed PR for this dependency update so Renovate skipped the recreation of the PR")>>
      [] pr_result = "not-scheduled" ->
            <<SKIPPED_PR, Text("PR is not scheduled for this repository")>>
      [] pr_result = "update-not-scheduled" ->
            <<SKIPPED_PR, Text("PR is not scheduled for this repository")>>
      [] pr_result = "pr-limit-reached" ->
            <<SKIPPED_PR, Text("PR limit reached for this repository")>>
      [] pr_result = "commit-limit-reached" ->
            <<SKIPPED_PR, Text("Commit limit reached for this repository")>>
      [] pr_result = "branch-limit-reached" ->
            <<SKIPPED_PR, Text("Branch limit reached for this repository")>>
      [] pr_result = "pr-edited" ->
            <<SKIPPED_PR, Text("PR has been manually edited so Renovate skipped any processing in order to not override any manual changes")>>
      [] pr_result = "error" -> <<ERROR_PR, Join(dry_run_info)>>
      [] pr_result = "pending" -> <<PENDING_PR, Join(dry_run_info)>>
      [] pr_result = "needs-pr-approval" -> <<PENDING_PR, Join(dry_run_info)>>
      [] pr_result = "needs-approval" -> <<PENDING_PR, Join(dry_run_info)>>
      [] pr_result = "no-work" -> no_work_state_drilldown(dry_run_info)
      [] pr_result = "done" -> done_state_drilldown(dry_run_info)
      [] pr_result = "pr-created" -> <<NEW_PR, <<>>>>
      [] pr_result = "rebase" -> <<UNCHANGED_PR, Text("PR would be rebased")>>
      [] pr_result = "automerged" -> <<AUTOMERGED_PR, Text("PR would be automerged")>>
      [] OTHER -> <<UNKNOWN_PR, <<"Unknown PR state", "<br>">> \o Join(dry_run_info)>>

\* faulty variant of line 632-633: the info lines are added to the detail
DetermineRebaseWithInfo(pr_result, repository_name, branch_name, dry_run_infos) ==
    LET info == get_dry_run_info(repository_name, branch_name, dry_run_infos) IN
    IF pr_result = "rebase"
    THEN <<UNCHANGED_PR, Text("PR would be rebased") \o Join(info)>>
    ELSE StatusOf(pr_result, info)

\* faulty variant of line 636-637: a missing result code is taken as no-work
DetermineMissingAsNoWork(pr_result, repository_name, branch_name, dry_run_infos) ==
    LET info == get_dry_run_info(repository_name, branch_name, dry_run_infos) IN
    StatusOf(IF pr_result = None THEN "no-work" ELSE pr_result, info)

\* _determine_pr_status: <<PR state, additional information>>
determine_pr_status(pr_result, repository_name, branch_name, dry_run_infos) ==
    StatusOf(pr_result, get_dry_run_info(repository_name, branch_name, dry_run_infos))

clIdle ==
    [status |-> "idle", pr_result |-> None, repository_name |-> None,
     branch_name |-> None, dry_run_infos |-> <<>>, result |-> <<>>]

clOthers == <<log, offset, gen, ac, fb, lk, exe, cfg>>

\* a call of _determine_pr_status on the arguments held in the frame
CL_Call ==
    /\ cl.status = "running"
    /\ cl' = [cl EXCEPT
                !.status = "returned",
                !.result = determine_pr_status(cl.pr_result, cl.repository_name,
                                               cl.branch_name, cl.dry_run_infos)]
    /\ UNCHANGED clOthers

(***************************************************************************)
(* _process_branches_lists                                                 *)
(***************************************************************************)
\* a key that a decoded JSON object does not hold
Missing == "<missing>"

\* dict.get(key, default)
Get(value, default) == IF value = Missing THEN default ELSE value

\* value or "N/A"
OrNA(value) == IF value = None \/ value = "" THEN "N/A" ELSE value

\* re.sub(timestamp_pattern, "", line)
StripTimestamp(line) ==
    CASE line = "TS DOC2" -> "DOC2"
      [] OTHER -> line

Upgrade1 == [packageName |-> "p1", currentVersion |-> "1.0", newVersion |-> "2.0"]
Upgrade2 == [packageName |-> "p2", currentVersion |-> "3.0", newVersion |-> Missing]

\* json.loads("{" + "".join(stripped_lines) + "}"): whether the text is a JSON
\* object, and the value of its key branchesInformation ([] when the object
\* holds no such key)
ParseJson(stripped_lines) ==
    CASE stripped_lines = <<>> -> [ok |-> TRUE, branchesInformation |-> <<>>]
      [] stripped_lines = <<"DOC1">> ->
            [ok |-> TRUE,
             branchesInformation |->
                << [branchName |-> "b1", prTitle |-> "t1", result |-> "error",
                    upgrades |-> <<Upgrade1, Upgrade2>>] >>]
      [] stripped_lines = <<"DOC2">> ->
            [ok |-> TRUE,
             branchesInformation |->
                << [branchName |-> "b1", prTitle |-> Missing, result |-> "done",
                    upgrades |-> <<>>],
                   [branchName |-> Missing, prTitle |-> "t1", result |-> "pending",
                    upgrades |-> <<Upgrade1>>] >>]
      [] OTHER -> [ok |-> FALSE, branchesInformation |-> <<>>]

JSONDecodeError(repository) == <<"JSONDecodeError", "Failed to parse JSON: {}", repository>>

\* line 456-458: the stripped lines of one section
StrippedLines(lines) == [k \in 1..Len(lines) |-> StripTimestamp(lines[k])]

\* line 455-463: the documents of the real sections, in dict order; the
\* error of the first section that does not parse
RECURSIVE SectionItems(_)
SectionItems(relevant_sections) ==
    IF relevant_sections = <<>> THEN [items |-> <<>>, error |-> NoError]
    ELSE LET repository == Head(relevant_sections)[1]
             doc == ParseJson(StrippedLines(Head(relevant_sections)[2]))
             rest == SectionItems(Tail(relevant_sections))
         IN IF ~doc.ok
            THEN [items |-> <<>>, error |-> JSONDecodeError(repository)]
            ELSE [items |-> <<[repository |-> repository,
                               branchesInformation |-> doc.branchesInformation]>>
                            \o rest.items,
                  error |-> rest.error]

\* line 466: json.loads of the f-string that holds the title between double
\* quotes: the title is read back as the body of a JSON string, so a double
\* quote ends it early (the text is no JSON object any more) and a backslash
\* escape is decoded
LoadsTitle(prTitle) ==
    CASE prTitle = "say \"hi\"" -> [ok |-> FALSE, prTitle |-> None]
      [] prTitle = "say \\\"hi\\\"" -> [ok |-> TRUE, prTitle |-> "say \"hi\""]
      [] OTHER -> [ok |-> TRUE, prTitle |-> prTitle]

\* the error json.loads raises at line 466, outside the try of line 456
TitleDecodeError == <<"JSONDecodeError", "Expecting ',' delimiter">>

\* line 465-467: the synthetic documents of the autoclosed records; the
\* error of the first record whose text does not parse
RECURSIVE AutoclosedItems(_)
AutoclosedItems(autoclosed_branches) ==
    IF autoclosed_branches = <<>> THEN [items |-> <<>>, error |-> NoError]
    ELSE LET repository == Head(autoclosed_branches)[1]
             loaded == LoadsTitle(OrNA(Head(autoclosed_branches)[2]))
             rest == AutoclosedItems(Tail(autoclosed_branches))
         IN IF ~loaded.ok
            THEN [items |-> <<>>, error |-> TitleDecodeError]
            ELSE [items |-> <<[repository |-> OrNA(repository),
                               branchesInformation |->
                                  << [branchName |-> Missing,
                                      prTitle |-> loaded.prTitle,
                                      result |-> "discarded",
                                      upgrades |-> <<>>] >>]>>
                            \o rest.items,
                  error |-> rest.error]

\* _process_branches_lists: the items, or the error raised
process_branches_lists(relevant_sections, autoclosed_branches) ==
    LET real == SectionItems(relevant_sections)
        synthetic == AutoclosedItems(autoclosed_branches) IN
    IF real.error # NoError THEN [items |-> <<>>, error |-> real.error]
    ELSE IF synthetic.error # NoError THEN [items |-> <<>>, error |-> synthetic.error]
    ELSE [items |-> real.items \o synthetic.items, error |-> NoError]

(***************************************************************************)
(* execute and HTMLReportGenerator._generate                               *)
(***************************************************************************)
ConfigError == <<"JSONDecodeError", "Invalid JSON format in configuration file '{}'.">>

\* h_returned is a history field: the items as the decoder returned them
exeIdle ==
    [pc |-> "idle", config_ok |-> TRUE, error |-> NoError,
     dry_run_infos |-> <<>>, autoclosed_branches |-> <<>>, branches_lists |-> <<>>,
     json_data |-> <<>>, h_returned |-> <<>>,
     i |-> 1, j |-> 1, dry_run_info |-> <<>>, html_parts |-> <<>>, written |-> 0]

exeOthers == <<log, offset, lk, cl, cfg>>

\* line 654: _read_config_file; line 657: the general scan is called
EX_ReadConfig ==
    /\ exe.pc = "config"
    /\ IF exe.config_ok
       THEN exe' = [exe EXCEPT !.pc = "general"] /\ gen' = genStart
       ELSE exe' = [exe EXCEPT !.pc = "failed", !.error = ConfigError] /\ UNCHANGED gen
    /\ UNCHANGED <<log, offset, ac, fb, lk, cl, cfg>>

\* line 657-660: the general scan returned; the autoclosed scan is called
EX_GeneralReturned ==
    /\ exe.pc = "general" /\ gen.status = "returned"
    /\ exe' = [exe EXCEPT !.pc = "autoclosed", !.dry_run_infos = gen.dry_run_infos]
    /\ ac' = acStart
    /\ UNCHANGED <<log, offset, gen, fb, lk, cl, cfg>>

\* line 660-663: the autoclosed scan returned; the section scan is called
EX_AutoclosedReturned ==
    /\ exe.pc = "autoclosed" /\ ac.status = "returned"
    /\ exe' = [exe EXCEPT !.pc = "sections", !.autoclosed_branches = ac.result]
    /\ fb' = fbStart
    /\ UNCHANGED <<log, offset, gen, ac, lk, cl, cfg>>

\* faulty variant of line 660: the error of the autoclosed scan is swallowed
\* and the section scan is called
EX_AutoclosedSwallowed ==
    /\ exe.pc = "autoclosed" /\ ac.status = "raised"
    /\ exe' = [exe EXCEPT !.pc = "sections", !.autoclosed_branches = ac.result]
    /\ fb' = fbStart
    /\ UNCHANGED <<log, offset, gen, ac, lk, cl, cfg>>

\* line 660: the autoclosed scan raised; execute propagates the error
EX_AutoclosedRaised ==
    /\ exe.pc = "autoclosed" /\ ac.status = "raised"
    /\ exe' = [exe EXCEPT !.pc = "failed", !.error = ac.error]
    /\ UNCHANGED <<log, offset, gen, ac, fb, lk, cl, cfg>>

\* line 663-666: the section scan returned
EX_SectionsReturned ==
    /\ exe.pc = "sections" /\ fb.status = "returned"
    /\ exe' = [exe EXCEPT !.pc = "decode", !.branches_lists = fb.relevant_sections]
    /\ UNCHANGED <<log, offset, gen, ac, fb, lk, cl, cfg>>

\* line 663: the section scan raised; execute propagates the error
EX_SectionsRaised ==
    /\ exe.pc = "sections" /\ fb.status = "raised"
    /\ exe' = [exe EXCEPT !.pc = "failed", !.error = fb.error]
    /\ UNCHANGED <<log, offset, gen, ac, fb, lk, cl, cfg>>

\* line 666-669: the decoder runs; on success the generator is constructed
EX_Decode ==
    /\ exe.pc = "decode"
    /\ LET r == process_branches_lists(exe.branches_lists, exe.autoclosed_branches) IN
        IF r.error # NoError
        THEN exe' = [exe EXCEPT !.pc = "failed", !.error = r.error]
        ELSE exe' = [exe EXCEPT !.pc = "generate", !.json_data = r.items,
                                !.h_returned = r.items, !.i = 1, !.j = 1]
    /\ UNCHANGED <<log, offset, gen, ac, fb, lk, cl, cfg>>

\* line 250-251: the arguments _generate passes to _determine_pr_status for
\* one branch record: <<pr_result, repository_name, branch_name>>
StatusArguments(repository, branch) ==
    <<Get(branch.result, None), repository, Get(branch.prTitle, "N/A")>>

\* line 257-293: the table rows of one branch record
BranchRows(repository, branch, status) ==
    [repository |-> repository,
     pr_title |-> Get(branch.prTitle, "N/A"),
     branch_name |-> Get(branch.branchName, "N/A"),
     pr_state |-> status[1],
     help_info |-> IF status[2] = <<>> THEN Text("No extra information available")
                   ELSE status[2],
     upgrades |-> [k \in 1..Len(branch.upgrades) |->
                     <<Get(branch.upgrades[k].packageName, "N/A"),
                       Get(branch.upgrades[k].currentVersion, "N/A"),
                       Get(branch.upgrades[k].newVersion, "N/A")>>]]

\* line 269: upgrades.pop(0) on the list held by json_data
PopFirst(upgrades) == IF Len(upgrades) > 0 THEN Tail(upgrades) ELSE upgrades

\* line 249-293: one iteration of the loop over the branches of item i
HG_Branch ==
    /\ exe.pc = "generate" /\ exe.i <= Len(exe.json_data)
    /\ exe.j <= Len(exe.json_data[exe.i].branchesInformation)
    /\ LET item == exe.json_data[exe.i]
           branch == item.branchesInformation[exe.j]
           args == StatusArguments(item.repository, branch)
           info == get_dry_run_info(args[2], args[3], exe.dry_run_infos)
           status == determine_pr_status(args[1], args[2], args[3], exe.dry_run_infos)
       IN exe' = [exe EXCEPT
                    !.dry_run_info = info,
                    !.html_parts = Append(exe.html_parts,
                                          BranchRows(item.repository, branch, status)),
                    !.json_data[exe.i].branchesInformation[exe.j].upgrades =
                        PopFirst(branch.upgrades),
                    !.j = exe.j + 1]
    /\ UNCHANGED <<log, offset, gen, ac, fb, lk, cl, cfg>>

\* line 229, 295-298: the table of item i is closed; the next item follows
HG_NextItem ==
    /\ exe.pc = "generate" /\ exe.i <= Len(exe.json_data)
    /\ exe.j > Len(exe.json_data[exe.i].branchesInformation)
    /\ exe' = [exe EXCEPT !.i = exe.i + 1, !.j = 1]
    /\ UNCHANGED <<log, offset, gen, ac, fb, lk, cl, cfg>>

\* line 300-312: the report is written
HG_Write ==
    /\ exe.pc = "generate" /\ exe.i > Len(exe.json_data)
    /\ exe' = [exe EXCEPT !.pc = "done", !.written = exe.written + 1]
    /\ UNCHANGED <<log, offset, gen, ac, fb, lk, cl, cfg>>

ExecuteNext ==
    \/ EX_ReadConfig
    \/ EX_GeneralReturned
    \/ EX_AutoclosedReturned
    \/ EX_AutoclosedRaised
    \/ EX_SectionsReturned
    \/ EX_SectionsRaised
    \/ EX_Decode
    \/ HG_Branch
    \/ HG_NextItem
    \/ HG_Write

(***************************************************************************)
(* Config.__init__.  A pattern is the sequence of its characters.          *)
(***************************************************************************)
PatternFields ==
    { "branches_info_start_pattern", "branches_info_end_pattern",
      "repository_name_pattern", "timestamp_pattern",
      "dry_run_info_pattern_general", "dry_run_info_pattern_autoclosed",
      "dry_run_info_autoclosed_pr_title_pattern", "updated_branch_pattern",
      "created_branch_pattern", "commited_files_pattern" }

\* s.startswith(old)
StartsWith(s, old) == Len(old) <= Len(s) /\ SubSeq(s, 1, Len(old)) = old

\* s[len(old):]
DropPrefix(s, old) == SubSeq(s, Len(old) + 1, Len(s))

\* faulty variant of line 26-36: s.replace(old, new, 1), the first occurrence only
RECURSIVE ReplaceFirst(_, _, _)
ReplaceFirst(s, old, new) ==
    IF StartsWith(s, old) THEN new \o DropPrefix(s, old)
    ELSE IF s = <<>> THEN <<>>
    ELSE <<Head(s)>> \o ReplaceFirst(Tail(s), old, new)

\* s.replace("", new): new before every character and at the end
RECURSIVE Interleave(_, _)
Interleave(s, new) ==
    IF s = <<>> THEN new
    ELSE new \o <<Head(s)>> \o Interleave(Tail(s), new)

\* s.replace(old, new): every non-overlapping occurrence of old, from the
\* left, is replaced; the text put in is not scanned again
RECURSIVE Replace(_, _, _)
Replace(s, old, new) ==
    IF old = <<>> THEN Interleave(s, new)
    ELSE IF s = <<>> THEN <<>>
    ELSE IF StartsWith(s, old) THEN new \o Replace(DropPrefix(s, old), old, new)
    ELSE <<Head(s)>> \o Replace(Tail(s), old, new)

cfgIdle ==
    [status |-> "idle", raw |-> [f \in PatternFields |-> <<>>],
     timestamp_base_pattern_placeholder |-> <<>>, timestamp_base_pattern |-> <<>>,
     patterns |-> [f \in PatternFields |-> <<>>]]

cfgOthers == <<log, offset, gen, ac, fb, lk, exe, cl>>

\* line 25-36: every pattern field is the raw pattern with the placeholder
\* replaced by the base pattern
CF_Init ==
    /\ cfg.status = "running"
    /\ cfg' = [cfg EXCEPT
                 !.status = "constructed",
                 !.patterns = [f \in PatternFields |->
                                 Replace(cfg.raw[f],
                                         cfg.timestamp_base_pattern_placeholder,
                                         cfg.timestamp_base_pattern)]]
    /\ UNCHANGED cfgOthers

(***************************************************************************)
(* Specifications.                                                         *)
(***************************************************************************)
SeqsUpTo(S, n) == UNION {[1..k -> S] : k \in 0..n}

\* the section scan alone, on every log over SectLines
SectLines == {"START A", "START B", "START ?", "END", "x", "  "}

InitSections ==
    /\ log \in SeqsUpTo(SectLines, MaxSectLen)
    /\ offset = 0
    /\ gen = genIdle /\ ac = acIdle /\ fb = fbStart /\ lk = lkIdle /\ exe = exeIdle
    /\ cl = clIdle /\ cfg = cfgIdle

SpecSections == InitSections /\ [][FindBranchesNext]_vars

\* the general scan alone, on every log over GenLines
GenLines == {"DRY A b1 i1", "DRY B b1 i1", "DRY A b1", " DRY A b1 i3 ", "x", "  "}

InitGeneral ==
    /\ log \in SeqsUpTo(GenLines, MaxGenLen)
    /\ offset = 0
    /\ gen = genStart /\ ac = acIdle /\ fb = fbIdle /\ lk = lkIdle /\ exe = exeIdle
    /\ cl = clIdle /\ cfg = cfgIdle

SpecGeneral == InitGeneral /\ [][GeneralNext]_vars

\* the autoclosed scan alone, on every log over AutoLines and every offset
AutoLines == {"AUTO A", "AUTO B", "TITLE t1", "TITLE t2", "AUTO C TITLE t3", "x", "  "}

InitAutoclosed ==
    /\ log \in SeqsUpTo(AutoLines, MaxAutoLen)
    /\ offset \in 0..MaxOffset
    /\ gen = genIdle /\ ac = acStart /\ fb = fbIdle /\ lk = lkIdle /\ exe = exeIdle
    /\ cl = clIdle /\ cfg = cfgIdle

SpecAutoclosed == InitAutoclosed /\ [][AutoclosedNext]_vars

\* _get_dry_run_info alone, on every event list over Events
Events ==
    { <<"A", "b1", "i1">>, <<"A", "b1", "i2">>, <<"A", "b1", None>>,
      <<"A", "b2", "i1">>, <<"B", "b1", "i1">>, <<None, "b1", "i2">> }

InitLookup ==
    /\ log = <<>>
    /\ offset = 0
    /\ gen = genIdle /\ ac = acIdle /\ fb = fbIdle /\ exe = exeIdle
    /\ cl = clIdle /\ cfg = cfgIdle
    /\ \E r \in {"A", "B"}, b \in {"b1", "b2"}, infos \in SeqsUpTo(Events, MaxEvents) :
          lk = [lkIdle EXCEPT !.status = "running", !.repository_name = r,
                              !.branch_name = b, !.dry_run_infos = infos]

SpecLookup == InitLookup /\ [][LK_Call]_vars

\* _determine_pr_status alone, on every result code, repository, branch and
\* event list over ClassifyEvents
ResultCodes ==
    { "discarded", "already-existed", "not-scheduled", "update-not-scheduled",
      "pr-limit-reached", "commit-limit-reached", "branch-limit-reached",
      "pr-edited", "error", "pending", "needs-pr-approval", "needs-approval",
      "no-work", "done", "pr-created", "rebase", "automerged",
      "Done", "unheard-of", "", None }

ClassifyEvents ==
    { <<"A", "b1", "updated">>, <<"A", "b1", "created">>, <<"A", "b1", "committed">>,
      <<"A", "b1", "updated and created">>, <<"A", "b1", "other">>,
      <<"A", "b1", None>>, <<"B", "b1", "updated">> }

InitClassify ==
    /\ log = <<>>
    /\ offset = 0
    /\ gen = genIdle /\ ac = acIdle /\ fb = fbIdle /\ lk = lkIdle /\ exe = exeIdle
    /\ cfg = cfgIdle
    /\ \E code \in ResultCodes, r \in {"A", "B"}, b \in {"b1", "b2"},
          infos \in SeqsUpTo(ClassifyEvents, MaxInfos) :
          cl = [clIdle EXCEPT !.status = "running", !.pr_result = code,
                              !.repository_name = r, !.branch_name = b,
                              !.dry_run_infos = infos]

SpecClassify == InitClassify /\ [][CL_Call]_vars

\* Config.__init__ alone, on patterns, placeholders and base patterns over
\* small alphabets; one field holds the pattern s, the others the pattern t
PatternChars == {"a", "b"}
BasePatternChars == {"a", "c"}

InitConfig ==
    /\ log = <<>>
    /\ offset = 0
    /\ gen = genIdle /\ ac = acIdle /\ fb = fbIdle /\ lk = lkIdle /\ exe = exeIdle
    /\ cl = clIdle
    /\ \E f \in PatternFields, s \in SeqsUpTo(PatternChars, MaxPatternLen),
          t \in {<<>>, <<"a", "b">>},
          placeholder \in SeqsUpTo(PatternChars, MaxPlaceholderLen),
          base \in SeqsUpTo(BasePatternChars, MaxBasePatternLen) :
          cfg = [cfgIdle EXCEPT
                   !.status = "running",
                   !.raw = [g \in PatternFields |-> IF g = f THEN s ELSE t],
                   !.timestamp_base_pattern_placeholder = placeholder,
                   !.timestamp_base_pattern = base]

SpecConfig == InitConfig /\ [][CF_Init]_vars

\* the decoder and the report generator alone, on scan results over
\* SectionDicts, Records and DecodeEvents
SectionDicts ==
    { <<>>,
      << <<"A", <<"DOC1">>>> >>,
      << <<"A", <<"DOC1">>>>, <<"B", <<"TS DOC2">>>> >>,
      << <<"B", <<"x">>>> >> }

Records ==
    { <<"A", "t1">>, <<"B", None>>, <<None, "t2">>,
      <<"A", "say \"hi\"">>, <<"B", "say \\\"hi\\\"">> }

DecodeEvents == { <<"A", "t1", "i4">>, <<"A", "b1", "i1">>, <<"N/A", "t2", "i2">> }

InitDecode ==
    /\ log = <<>>
    /\ offset = 0
    /\ gen = genIdle /\ ac = acIdle /\ fb = fbIdle /\ lk = lkIdle
    /\ cl = clIdle /\ cfg = cfgIdle
    /\ \E sections \in SectionDicts, records \in SeqsUpTo(Records, MaxRecords),
          infos \in SeqsUpTo(DecodeEvents, MaxIndex) :
          exe = [exeIdle EXCEPT !.pc = "decode", !.branches_lists = sections,
                                !.autoclosed_branches = records,
                                !.dry_run_infos = infos]

DecodeNext ==
    \/ EX_Decode
    \/ HG_Branch
    \/ HG_NextItem
    \/ HG_Write

SpecDecode == InitDecode /\ [][DecodeNext]_vars

\* execute on every log made of at most MaxSegments segments
Segments ==
    { <<"DRY A b1 i1">>,
      <<"DRY A t1 i4">>,
      <<"START A", "DOC1", "END">>,
      <<"START B", "TS DOC2", "END">>,
      <<"START B">>,
      <<"AUTO B", "TITLE t2">>,
      <<"  ">> }

RECURSIVE LogsOf(_)
LogsOf(n) ==
    IF n = 0 THEN {<<>>}
    ELSE LET shorter == LogsOf(n - 1) IN
         shorter \cup {l \o s : l \in shorter, s \in Segments}

Init ==
    /\ log \in LogsOf(MaxSegments)
    /\ offset \in 0..MaxOffset
    /\ gen = genIdle /\ ac = acIdle /\ fb = fbIdle /\ lk = lkIdle
    /\ cl = clIdle /\ cfg = cfgIdle
    /\ \E ok \in BOOLEAN : exe = [exeIdle EXCEPT !.pc = "config", !.config_ok = ok]

Next ==
    \/ ExecuteNext
    \/ GeneralNext
    \/ AutoclosedNext
    \/ FindBranchesNext

Spec == Init /\ [][Next]_vars

(***************************************************************************)
(* The log as a reader of the specification sees it: every line, trimmed,  *)
(* whatever part of it a scan reads.                                       *)
(***************************************************************************)
LineOf(k) == Strip(log[k])

\* the trimmed line at index k, None past the end of the log
LineAt(k) == IF k \in 1..Len(log) THEN LineOf(k) ELSE None

\* whether a section is open just before line k (OUTSIDE / IN_SECTION)
RECURSIVE InSectionBefore(_)
InSectionBefore(k) ==
    IF k = 1 THEN FALSE
    ELSE IF InSectionBefore(k - 1) THEN ~EndMatch(LineOf(k - 1))
    ELSE StartMatch(LineOf(k - 1))

\* the start markers: lines matching the start pattern outside a section
SectionStarts == {k \in 1..Len(log) : StartMatch(LineOf(k)) /\ ~InSectionBefore(k)}

EndsAfter(k) == {e \in (k + 1)..Len(log) : EndMatch(LineOf(e))}

\* the start markers that have an end marker later in the log
TerminatedStarts == {k \in SectionStarts : EndsAfter(k) # {}}

Min(S) == CHOOSE m \in S : \A n \in S : m <= n
Max(S) == CHOOSE m \in S : \A n \in S : m >= n

\* the lines strictly between start marker k and the first end marker after it
BodyOf(k) == [n \in 1..(Min(EndsAfter(k)) - k - 1) |-> LineOf(k + n)]

TerminatedRepositories == {RepoSearch(LineOf(k)) : k \in TerminatedStarts} \ {None}

TerminatedStartsOf(repository) ==
    {k \in TerminatedStarts : RepoSearch(LineOf(k)) = repository}

\* the number of elements of S that are at most k
Rank(S, k) == Cardinality({m \in S : m <= k})

FbEnded == fb.status \in {"returned", "raised"}

(***************************************************************************)
(* C1 (fails on the code): whenever _find_branches_lists reaches the end   *)
(* of its scan while a section is open, it raises the unterminated-section *)
(* error naming that repository, also when a section of the same           *)
(* repository was sealed earlier in the log.                               *)
(***************************************************************************)
C1_OpenSectionAtEndRaises ==
    (FbEnded /\ fb.pc = "inner") =>
        /\ fb.status = "raised"
        /\ fb.error = UnterminatedSectionError(fb.repository_name)

(***************************************************************************)
(* C2 (fails on the code): in the pipeline, the info lines used to         *)
(* classify a branch record are the indexed events whose repository is the *)
(* record's repository and whose branch is the record's branchName, in     *)
(* encounter order, whatever the record's title.                           *)
(***************************************************************************)
MatchingEvents(repository, branch, infos) ==
    {k \in 1..Len(infos) :
        infos[k][1] = repository /\ infos[k][2] = branch /\ infos[k][3] # None}

\* result holds the info of every matching event, in encounter order
IsInfoOf(result, repository, branch, infos) ==
    LET M == MatchingEvents(repository, branch, infos) IN
    /\ Len(result) = Cardinality(M)
    /\ \A k \in M : result[Rank(M, k)] = infos[k][3]

\* a branch record of item exe.i has just been classified
Classified == exe.pc = "generate" /\ exe.j > 1 /\ exe.i <= Len(exe.json_data)

ClassifiedBranch == exe.json_data[exe.i].branchesInformation[exe.j - 1]

C2_InfoLinesByBranchName ==
    (Classified /\ ClassifiedBranch.branchName # Missing) =>
        IsInfoOf(exe.dry_run_info, exe.json_data[exe.i].repository,
                 ClassifiedBranch.branchName, exe.dry_run_infos)

(***************************************************************************)
(* C3 (fails on the code): the list returned by                            *)
(* _extract_general_dry_run_infos holds, in log order, exactly one event   *)
(* for each line of the log that matches the general-info pattern,         *)
(* wherever the line stands, also after a line that is empty once trimmed. *)
(***************************************************************************)
GeneralLines == {k \in 1..Len(log) : GeneralMatch(LineOf(k)) # NoMatch}

C3_EveryMatchingLineCollected ==
    gen.status = "returned" =>
        /\ Len(gen.dry_run_infos) = Cardinality(GeneralLines)
        /\ \A k \in GeneralLines :
              gen.dry_run_infos[Rank(GeneralLines, k)] = GeneralMatch(LineOf(k))

(***************************************************************************)
(* C4 (as stated, fails on the code): with offset 0, the line tested       *)
(* against the title pattern is the marker line's immediate successor.     *)
(***************************************************************************)
C4_OffsetZeroTestsSuccessor ==
    (ac.pc = "title" /\ offset = 0) => ac.pos = ac.h_marker + 1

(***************************************************************************)
(* C4 (amended): with offset 0, the line tested against the title pattern  *)
(* is the marker line itself: no line is read between the marker match and *)
(* the title test.                                                         *)
(***************************************************************************)
C4_OffsetZeroTestsMarkerLine ==
    (ac.pc = "title" /\ offset = 0) =>
        /\ ac.pos = ac.h_marker
        /\ ac.line = LineOf(ac.h_marker)

\* offset 0, a marker line that has a successor, and a record appended from
\* the marker line itself
C4_Witness ==
    /\ offset = 0 /\ ac.pc = "title"
    /\ ac.h_marker < Len(log)
    /\ Len(ac.result) > 0

(***************************************************************************)
(* C5: for every offset N and every marker line at index i the autoclosed  *)
(* scan matches, the line tested against the title pattern is the line at  *)
(* index i+N; every record appended is (repository of the marker, title of *)
(* the line N below it), and a returned list holds one record per matched  *)
(* marker, in the order of the marker lines.                               *)
(***************************************************************************)
C5_TitleLineIsOffsetBelowMarker ==
    /\ ac.pc = "title" => ac.line = LineAt(ac.h_marker + offset)
    /\ Len(ac.result) <= Len(ac.h_markers)
    /\ \A k \in 1..Len(ac.result) :
          /\ ac.h_markers[k] + offset <= Len(log)
          /\ ac.result[k] = <<AutoRepo(LineOf(ac.h_markers[k])),
                              TitleOf(LineOf(ac.h_markers[k] + offset))>>
    /\ \A k \in 1..Len(ac.h_markers), m \in 1..Len(ac.h_markers) :
          k < m => ac.h_markers[k] <= ac.h_markers[m]
    /\ ac.status = "returned" => Len(ac.result) = Len(ac.h_markers)

\* a scan that returned two records, the titles read one line below the markers
C5_Witness ==
    /\ ac.status = "returned" /\ offset = 1
    /\ Len(ac.result) = 2 /\ ac.result[1] # ac.result[2]

(***************************************************************************)
(* C6: for a matched marker with offset N, a log that ends before the line *)
(* N below the marker gives the offset-missing error naming N; a line N    *)
(* below the marker that does not match the title pattern gives the        *)
(* title-not-found error carrying N and the text of that line; in both     *)
(* cases no list is returned.                                              *)
(***************************************************************************)
C6_OffsetLineErrors ==
    /\ ac.status = "raised" =>
          /\ ac.pc = "title"
          /\ IF ac.h_marker + offset > Len(log)
             THEN ac.error = OffsetMissingError(offset)
             ELSE /\ ~TitleMatch(LineOf(ac.h_marker + offset))
                  /\ ac.error = TitleNotFoundError(offset, LineOf(ac.h_marker + offset))
    /\ ac.status = "returned" =>
          \A k \in 1..Len(ac.h_markers) :
              /\ ac.h_markers[k] + offset <= Len(log)
              /\ TitleMatch(LineOf(ac.h_markers[k] + offset))

\* the line two below the marker exists and is empty once trimmed: the
\* title-not-found error carries the empty text
C6_Witness ==
    /\ ac.status = "raised" /\ offset = 2
    /\ ac.h_marker + offset <= Len(log)
    /\ ac.error = TitleNotFoundError(2, "")

(***************************************************************************)
(* C7 (fails on the code): _find_branches_lists raises the empty-log error *)
(* if and only if the log holds no lines at all; on a log with at least    *)
(* one line and no start marker it returns an empty mapping.               *)
(***************************************************************************)
C7_EmptyLogErrorIffNoLines ==
    FbEnded =>
        /\ fb.error = EmptyLogError <=> Len(log) = 0
        /\ (Len(log) > 0 /\ \A k \in 1..Len(log) : ~StartMatch(LineOf(k))) =>
              (fb.status = "returned" /\ fb.relevant_sections = <<>>)

(***************************************************************************)
(* C8 (fails on the code): _find_branches_lists either returns a mapping   *)
(* whose key set is the set of repository identifiers at start markers     *)
(* that have an end marker later in the log, or raises one of the          *)
(* empty-log, repository-name and unterminated-section errors.             *)
(***************************************************************************)
C8_KeySetOrError ==
    FbEnded =>
        \/ /\ fb.status = "returned"
           /\ DictKeys(fb.relevant_sections) = TerminatedRepositories
        \/ /\ fb.status = "raised"
           /\ fb.error \in {EmptyLogError, RepositoryNameError,
                            UnterminatedSectionError(fb.repository_name)}

(***************************************************************************)
(* C9 (fails on the code): when two or more terminated sections of one log *)
(* carry the same repository identifier, the returned mapping holds for it *)
(* exactly the lines of the last such section.                             *)
(***************************************************************************)
C9_LastSectionWins ==
    fb.status = "returned" =>
        \A repository \in {"A", "B"} :
            Cardinality(TerminatedStartsOf(repository)) >= 2 =>
                /\ repository \in DictKeys(fb.relevant_sections)
                /\ DictGet(fb.relevant_sections, repository)
                       = BodyOf(Max(TerminatedStartsOf(repository)))

(***************************************************************************)
(* C10: _get_dry_run_info returns the info of all events whose repository  *)
(* and branch equal the arguments and whose info is present, in encounter  *)
(* order, keeping duplicates.                                              *)
(***************************************************************************)
C10_AllMatchesInOrder ==
    lk.status = "returned" =>
        IsInfoOf(lk.result, lk.repository_name, lk.branch_name, lk.dry_run_infos)

\* four events, one of them skipped, the same info returned twice
C10_Witness ==
    /\ lk.status = "returned"
    /\ Len(lk.dry_run_infos) = 4 /\ Len(lk.result) = 3
    /\ lk.result[1] = lk.result[3] /\ lk.result[1] # lk.result[2]

(***************************************************************************)
(* C11 (fails on the code): the items _process_branches_lists returns are  *)
(* the documents of the real sections, in the order in which the sections  *)
(* that supplied their contents were sealed by the scan of the log,        *)
(* followed by one synthetic document per autoclosed record, in the order  *)
(* of the records.                                                         *)
(***************************************************************************)
\* the repositories of a seal history, each at the place of the section that
\* was sealed for it last (the one whose lines the mapping holds)
RECURSIVE Suppliers(_)
Suppliers(sealed) ==
    IF sealed = <<>> THEN <<>>
    ELSE IF \E k \in 2..Len(sealed) : sealed[k] = sealed[1]
         THEN Suppliers(Tail(sealed))
         ELSE <<sealed[1]>> \o Suppliers(Tail(sealed))

DecoderReturned == exe.pc \in {"generate", "done"}

IsSynthetic(doc) ==
    /\ Len(doc.branchesInformation) = 1
    /\ doc.branchesInformation[1].result = "discarded"
    /\ doc.branchesInformation[1].branchName = Missing

C11_RealInSupplierOrderThenSynthetic ==
    (DecoderReturned /\ fb.status = "returned") =>
        LET items == exe.h_returned
            real == Suppliers(fb.h_sealed)
            records == exe.autoclosed_branches
        IN /\ Len(items) = Len(real) + Len(records)
           /\ \A k \in 1..Len(real) :
                 /\ items[k].repository = real[k]
                 /\ ~IsSynthetic(items[k])
           /\ \A k \in 1..Len(records) :
                 /\ IsSynthetic(items[Len(real) + k])
                 /\ items[Len(real) + k].repository = records[k][1]
                 /\ items[Len(real) + k].branchesInformation[1].prTitle = records[k][2]

(***************************************************************************)
(* C12 (fails on the code): for every autoclosed record the decoder output *)
(* holds one document of its own, after the documents of the real          *)
(* sections, with exactly one branch whose result is 'discarded', whose    *)
(* title is the record's title ('N/A' when absent) and whose repository is *)
(* the record's ('N/A' when absent); the report classifies that branch     *)
(* DISCARDED with the detail 'PR would be discarded', whatever the index   *)
(* holds.                                                                  *)
(***************************************************************************)
OrAbsent(value) == IF value = None THEN "N/A" ELSE value

DecoderCalled == exe.pc \in {"generate", "done", "failed"}

C12_OneDiscardedDocumentPerRecord ==
    (DecoderCalled /\ SectionItems(exe.branches_lists).error = NoError) =>
        LET records == exe.autoclosed_branches
            n == Len(exe.branches_lists)
            rows == exe.html_parts
        IN /\ exe.pc # "failed"
           /\ Len(exe.h_returned) = n + Len(records)
           /\ \A k \in 1..Len(records) :
                 LET doc == exe.h_returned[n + k] IN
                 /\ doc.repository = OrAbsent(records[k][1])
                 /\ Len(doc.branchesInformation) = 1
                 /\ doc.branchesInformation[1].result = "discarded"
                 /\ doc.branchesInformation[1].prTitle = OrAbsent(records[k][2])
           /\ exe.pc = "done" =>
                 \A k \in 1..Len(records) :
                    LET row == rows[Len(rows) - Len(records) + k] IN
                    /\ row.pr_state = DISCARDED_PR
                    /\ row.help_info = Text("PR would be discarded")

(***************************************************************************)
(* The info lines of a stand-alone call of _determine_pr_status.           *)
(***************************************************************************)
ClSelected(event) ==
    event[1] = cl.repository_name /\ event[2] = cl.branch_name /\ event[3] # None

ClLines ==
    LET selected == SelectSeq(cl.dry_run_infos, ClSelected)
    IN [k \in 1..Len(selected) |-> selected[k][3]]

\* detail holds the lines in order, one separator between two lines, none
\* before the first or after the last; it is empty when there is no line
IsJoined(detail, lines) ==
    IF lines = <<>> THEN detail = <<>>
    ELSE /\ Len(detail) = 2 * Len(lines) - 1
         /\ \A k \in 1..Len(detail) :
               detail[k] = IF k % 2 = 1 THEN lines[(k + 1) \div 2] ELSE "<br>"

SkippedCodes ==
    { "already-existed", "not-scheduled", "update-not-scheduled", "pr-limit-reached",
      "commit-limit-reached", "branch-limit-reached", "pr-edited" }

FixedCodes == SkippedCodes \cup {"discarded", "pr-created", "rebase", "automerged"}

JoinedCodes == {"error", "pending", "needs-pr-approval", "needs-approval"}

TableCodes == FixedCodes \cup JoinedCodes \cup {"no-work", "done"}

(***************************************************************************)
(* C13: for the codes discarded, already-existed, not-scheduled,           *)
(* update-not-scheduled, pr-limit-reached, commit-limit-reached,           *)
(* branch-limit-reached, pr-edited, pr-created, rebase and automerged the  *)
(* state is fixed (DISCARDED, SKIPPED for the seven skip codes, NEW,       *)
(* UNCHANGED, AUTOMERGED) and the detail is one fixed text per code, the   *)
(* same for every repository, branch and index, and empty for pr-created.  *)
(***************************************************************************)
FixedState(code) ==
    CASE code = "discarded" -> DISCARDED_PR
      [] code \in SkippedCodes -> SKIPPED_PR
      [] code = "pr-created" -> NEW_PR
      [] code = "rebase" -> UNCHANGED_PR
      [] code = "automerged" -> AUTOMERGED_PR

C13_FixedStateAndDetail ==
    (cl.status = "returned" /\ cl.pr_result \in FixedCodes) =>
        /\ cl.result[1] = FixedState(cl.pr_result)
        /\ cl.result[2] = StatusOf(cl.pr_result, <<>>)[2]
        /\ Len(cl.result[2]) = IF cl.pr_result = "pr-created" THEN 0 ELSE 1

\* a fixed code classified although the index holds three lines of the branch
C13_Witness ==
    /\ cl.status = "returned" /\ cl.pr_result = "rebase"
    /\ Len(ClLines) = 3
    /\ cl.result = <<UNCHANGED_PR, Text("PR would be rebased")>>

(***************************************************************************)
(* C14: error gives ERROR and pending, needs-pr-approval and               *)
(* needs-approval give PENDING; the detail is every info line of the       *)
(* branch, in encounter order, joined with '<br>': empty when there is no  *)
(* line, and without a leading or trailing separator.                      *)
(***************************************************************************)
C14_ErrorPendingJoinInfoLines ==
    (cl.status = "returned" /\ cl.pr_result \in JoinedCodes) =>
        /\ cl.result[1] = IF cl.pr_result = "error" THEN ERROR_PR ELSE PENDING_PR
        /\ IsJoined(cl.result[2], ClLines)

\* two info lines joined, one event of the index left out
C14_Witness ==
    /\ cl.status = "returned" /\ cl.pr_result = "needs-approval"
    /\ Len(cl.dry_run_infos) = 3 /\ Len(ClLines) = 2
    /\ cl.result = <<PENDING_PR, <<ClLines[1], "<br>", ClLines[2]>>>>

(***************************************************************************)
(* C15: every result code outside the table, a missing one included, gives *)
(* UNKNOWN with a detail that starts with 'Unknown PR state', followed by  *)
(* the separator and the info lines of the branch joined with the          *)
(* separator; the call returns and gives no other state.                   *)
(***************************************************************************)
C15_OtherCodesUnknown ==
    (cl.status # "running" /\ cl.status # "idle" /\ cl.pr_result \notin TableCodes) =>
        /\ cl.status = "returned"
        /\ cl.result[1] = UNKNOWN_PR
        /\ Len(cl.result[2]) >= 2
        /\ cl.result[2][1] = "Unknown PR state"
        /\ cl.result[2][2] = "<br>"
        /\ IsJoined(SubSeq(cl.result[2], 3, Len(cl.result[2])), ClLines)

\* a missing result code, with two info lines
C15_Witness ==
    /\ cl.status = "returned" /\ cl.pr_result = None
    /\ Len(ClLines) = 2
    /\ cl.result[1] = UNKNOWN_PR /\ Len(cl.result[2]) = 5

(***************************************************************************)
(* C16: for the code done, no info line gives UNCHANGED; otherwise UPDATED *)
(* when some line matches the updated pattern; otherwise NEW when some     *)
(* line matches the created pattern; otherwise UNCHANGED when some line    *)
(* matches the committed pattern; otherwise UNKNOWN with all lines joined. *)
(* State and detail of the first four cases depend on which patterns some  *)
(* line matches, not on the order of the lines; updated and created        *)
(* together give UPDATED.                                                  *)
(***************************************************************************)
SomeUpdated == \E k \in 1..Len(ClLines) : UpdatedMatch(ClLines[k])
SomeCreated == \E k \in 1..Len(ClLines) : CreatedMatch(ClLines[k])
SomeCommitted == \E k \in 1..Len(ClLines) : CommittedMatch(ClLines[k])

C16_DoneDrilldown ==
    (cl.status = "returned" /\ cl.pr_result = "done") =>
        IF ClLines = <<>> THEN cl.result = <<UNCHANGED_PR, <<>>>>
        ELSE IF SomeUpdated THEN cl.result = <<UPDATED_PR, <<>>>>
        ELSE IF SomeCreated THEN cl.result = <<NEW_PR, <<>>>>
        ELSE IF SomeCommitted THEN cl.result = <<UNCHANGED_PR, <<>>>>
        ELSE /\ cl.result[1] = UNKNOWN_PR
             /\ IsJoined(cl.result[2], ClLines)

\* a created line before an updated line
C16_Witness ==
    /\ cl.status = "returned" /\ cl.pr_result = "done"
    /\ Len(ClLines) = 2
    /\ ClLines[1] = "created" /\ ClLines[2] = "updated"
    /\ cl.result = <<UPDATED_PR, <<>>>>

(***************************************************************************)
(* C17: for the code no-work, no info line gives UNCHANGED with an empty   *)
(* detail; otherwise NEW with an empty detail when some line matches the   *)
(* committed pattern; otherwise UNKNOWN with the lines joined.  Lines that *)
(* match the updated or the created pattern have no influence.             *)
(***************************************************************************)
C17_NoWorkDrilldown ==
    (cl.status = "returned" /\ cl.pr_result = "no-work") =>
        IF ClLines = <<>> THEN cl.result = <<UNCHANGED_PR, <<>>>>
        ELSE IF SomeCommitted THEN cl.result = <<NEW_PR, <<>>>>
        ELSE /\ cl.result[1] = UNKNOWN_PR
             /\ IsJoined(cl.result[2], ClLines)

\* an updated and a created line and no committed line
C17_Witness ==
    /\ cl.status = "returned" /\ cl.pr_result = "no-work"
    /\ Len(ClLines) = 2
    /\ ClLines[1] = "updated" /\ ClLines[2] = "created"
    /\ cl.result = <<UNKNOWN_PR, <<"updated", "<br>", "created">>>>

(***************************************************************************)
(* C18: in every run of execute, once the configuration load, one of the   *)
(* three scans or the decoder has raised, no later stage runs and the      *)
(* report is not written; the report is written only when the three scans  *)
(* and the decoder completed without error, and at most once.              *)
(***************************************************************************)
NothingRendered == exe.html_parts = <<>> /\ exe.written = 0

NothingDecoded == exe.json_data = <<>> /\ exe.h_returned = <<>> /\ NothingRendered

C18_ErrorStopsRunReportWrittenOnce ==
    /\ exe.written <= 1
    /\ exe.written = 1 =>
          /\ exe.pc = "done" /\ exe.error = NoError /\ exe.config_ok
          /\ gen.status = "returned" /\ ac.status = "returned" /\ fb.status = "returned"
          /\ process_branches_lists(exe.branches_lists,
                                    exe.autoclosed_branches).error = NoError
    /\ (exe.pc # "idle" /\ exe.pc # "config" /\ ~exe.config_ok) =>
          /\ exe.pc = "failed" /\ exe.error = ConfigError
          /\ gen.status = "idle" /\ ac.status = "idle" /\ fb.status = "idle"
          /\ NothingDecoded
    /\ ac.status = "raised" =>
          /\ exe.pc \in {"autoclosed", "failed"}
          /\ exe.pc = "failed" => exe.error = ac.error
          /\ fb.status = "idle"
          /\ NothingDecoded
    /\ fb.status = "raised" =>
          /\ exe.pc \in {"sections", "failed"}
          /\ exe.pc = "failed" => exe.error = fb.error
          /\ NothingDecoded
    /\ exe.pc = "failed" =>
          /\ exe.error # NoError
          /\ NothingDecoded

\* the third scan raised after the first two had returned their results
C18_Witness ==
    /\ exe.pc = "failed" /\ fb.status = "raised"
    /\ gen.status = "returned" /\ ac.status = "returned"
    /\ exe.dry_run_infos # <<>> /\ exe.autoclosed_branches # <<>>
    /\ exe.written = 0

(***************************************************************************)
(* C19 (fails on the code): after the report is generated every branch     *)
(* record of the structure the decoder returned still holds the same       *)
(* ordered upgrade list, and every other field, as when the decoder        *)
(* returned.                                                               *)
(***************************************************************************)
C19_DecodedStructureUnchanged ==
    exe.pc = "done" => exe.json_data = exe.h_returned

(***************************************************************************)
(* Occurrences of one text in another.                                     *)
(***************************************************************************)
Contains(s, p) ==
    \E k \in 1..(Len(s) - Len(p) + 1) : SubSeq(s, k, k + Len(p) - 1) = p

Chars(s) == {s[k] : k \in 1..Len(s)}

Constructed == cfg.status = "constructed"

SomeFieldHoldsPlaceholder ==
    \E f \in PatternFields :
        Contains(cfg.patterns[f], cfg.timestamp_base_pattern_placeholder)

(***************************************************************************)
(* C20 as stated (fails): for every non-empty placeholder and every base   *)
(* pattern, also one that holds the placeholder, no pattern field of the   *)
(* constructed Config holds an occurrence of the placeholder.              *)
(***************************************************************************)
C20_NoPlaceholderSurvives ==
    (Constructed /\ cfg.timestamp_base_pattern_placeholder # <<>>) =>
        ~SomeFieldHoldsPlaceholder

(***************************************************************************)
(* C20 (amended): for every non-empty placeholder and every non-empty base *)
(* pattern that has no character in common with the placeholder, no        *)
(* pattern field of the constructed Config holds an occurrence of the      *)
(* placeholder.                                                            *)
(***************************************************************************)
C20_NoPlaceholderSurvivesDisjointBase ==
    (/\ Constructed
     /\ cfg.timestamp_base_pattern_placeholder # <<>>
     /\ cfg.timestamp_base_pattern # <<>>
     /\ Chars(cfg.timestamp_base_pattern)
            \cap Chars(cfg.timestamp_base_pattern_placeholder) = {}) =>
        ~SomeFieldHoldsPlaceholder

\* a raw pattern that holds the placeholder "ab", replaced by the base "c"
C20_Witness ==
    /\ Constructed
    /\ cfg.timestamp_base_pattern_placeholder = <<"a", "b">>
    /\ cfg.timestamp_base_pattern = <<"c">>
    /\ \E f \in PatternFields :
          /\ cfg.raw[f] = <<"a", "b", "a">>
          /\ cfg.patterns[f] = <<"c", "a">>

(***************************************************************************)
(* C21 (fails on the code): after a title match of the autoclosed scan,    *)
(* every line tested against the marker pattern lies below the title line: *)
(* the title line and the lines between marker and title are not tested    *)
(* again, and no marker matched later is a line consumed by an earlier     *)
(* record.                                                                 *)
(***************************************************************************)
C21_MarkerTestResumesBelowTitle ==
    /\ (ac.status = "running" /\ ac.pc = "loop" /\ Truthy(ac.line)
            /\ Len(ac.result) > 0) =>
          ac.pos > ac.h_marker + offset
    /\ \A k \in 1..Len(ac.h_markers), m \in 1..Len(ac.h_markers) :
          k < m => ac.h_markers[m] > ac.h_markers[k] + offset

(***************************************************************************)
(* C22: the lines _find_branches_lists seals for a section are the trimmed *)
(* log lines strictly between its start marker and the first line after it *)
(* that matches the end pattern, in log order; a line matching the start   *)
(* pattern inside an open section is a body line; the accumulator is empty *)
(* whenever the scan is outside a section, so no line of an earlier        *)
(* section appears in a later one; the mapping holds, for each key, the    *)
(* lines of the seal made last for it.                                     *)
(***************************************************************************)
\* the lines at the indices strictly between a and b
LinesBetween(a, b) == [n \in 1..(b - a - 1) |-> LineOf(a + n)]

LastSealOf(repository) ==
    Max({k \in 1..Len(fb.h_sealed) : fb.h_sealed[k] = repository})

C22_SealedLinesAreSectionBody ==
    /\ \A k \in 1..Len(fb.h_seals) :
          LET start == fb.h_seals[k][1]
              end == fb.h_seals[k][2]
          IN /\ StartMatch(LineOf(start))
             /\ EndsAfter(start) # {} /\ end = Min(EndsAfter(start))
             /\ fb.h_seals[k][3] = LinesBetween(start, end)
             /\ k > 1 => start > fb.h_seals[k - 1][2]
    /\ (fb.status = "running" /\ fb.pc \in {"open", "outer"}) =>
          fb.relevant_section = <<>>
    /\ (fb.status = "running" /\ fb.pc = "inner") =>
          fb.relevant_section =
              LinesBetween(fb.h_start, IF fb.line = None THEN fb.pos + 1 ELSE fb.pos)
    /\ \A repository \in DictKeys(fb.relevant_sections) :
          DictGet(fb.relevant_sections, repository)
              = fb.h_seals[LastSealOf(repository)][3]

\* two sections sealed; the first holds a line that matches the start
\* pattern, the second is empty
C22_Witness ==
    /\ fb.status = "returned"
    /\ Len(fb.h_seals) = 2
    /\ fb.h_seals[1][3] = <<"START B">>
    /\ fb.h_seals[2][3] = <<>>
    /\ DictKeys(fb.relevant_sections) = {"A"}

(***************************************************************************)
(* C23 (fails on the code): the autoclosed scan appends at most one record *)
(* per log line, for every offset, 0 included.                             *)
(***************************************************************************)
C23_AtMostOneRecordPerLine == Len(ac.result) <= Len(log)

====
